---- MODULE Spec2Model ----
(***************************************************************************)
(* Whole-frame motion estimation of sima/motion/frame_align.py:            *)
(* PlaneTranslation2D._estimate (the loop over spatial partitions and the  *)
(* agreement test), _frame_alignment_base (one partition run: cycles,      *)
(* dispatch of the frame tasks, _align_planes) and _align_frame (one frame *)
(* task: bootstrap or correlate, record, grow and insert).                 *)
(*                                                                         *)
(* Conventions.  Python's None is the empty sequence <<>> and a value v    *)
(* that may be None is <<v>> (a 2-vector stays <<y, x>>).  Sequences are   *)
(* 1-based: cycle_idx, frame_idx, the plane index p and the tile index run *)
(* from 1 where the code counts from 0.  Array positions keep the code's   *)
(* 0-based coordinates: position (y, x) of a 2-D array a is a[y+1][x+1].   *)
(* A plane of the dataset is its mask of finite samples (TRUE: finite,     *)
(* FALSE: NaN); the sample values only reach the correlation primitive,    *)
(* which is an external function and is modelled by the values it can      *)
(* return.  pixel_sums has the shape of pixel_counts and is padded and     *)
(* updated by the same statements; only pixel_counts is kept.  The         *)
(* trailing channel axis has length 1.                                     *)
(***************************************************************************)
EXTENDS Integers, Sequences, FiniteSets, TLC

\* ------------------------------------------------------------------ bounds
MaxCycles == 2
MaxFrames == 2
MaxPlanes == 2
\* cycles * frames * planes of a dataset
MaxEntries == 4
\* largest |component| of (shift - p_offset) the correlation primitive returns
MaxShift == 2
\* planes of a dataset without any finite sample
MaxNaNPlanes == 1

\* ------------------------------------------------------- program constants
\* DIST_CRITERION = 2.
DIST_CRITERION == 2
\* (a bootstrap entry given the lowest score)
BootstrapCorrLowest == 1 - 1
\* corrs[cycle_idx][frame_idx][p] = 1: the score of a bootstrap entry
BOOTSTRAP_CORR == 1
\* assert np.prod(pixel_sums.shape) < 4 * np.prod(frame_shape)
AREA_FACTOR == 4

VARIABLES
    \* ---- the parameters (self._params), the machine and the dataset
    n_processes,        \* <<>> or <<n>>
    cpu_count,          \* multiprocessing.cpu_count()
    method,             \* a string
    max_displacement,   \* <<>> or <<my, mx>>
    partitions,         \* <<>> or <<py, px>>
    dataset,            \* dataset[c][f][p]: the mask of a plane
    \* ---- _estimate
    est_pc,             \* "tiles" | "run" | "check" | "break" | "returned" | "failed"
    tile,               \* position in it.product(range(py), range(px)), from 1
    shifts_record,      \* the tiles' shifts, in the order they were run
    corr_record,        \* the tiles' correlations
    first_shifts,       \* <<>> while the name is unbound, else <<value>>
    second_shifts,
    result,             \* <<>> or <<the value _estimate returned>>
    \* ---- _frame_alignment_base
    run_pc,             \* "idle" | "dispatch" | "collect"
    cycle_idx,
    map_generator,      \* "none" | "imap_unordered" | "imap"
    n_pools,
    sequences,          \* partioned_sequences: the dataset cropped to the tile
    \* ---- the shared namespace and the lock
    offset,             \* namespace.offset
    pixel_counts,       \* namespace.pixel_counts[p]: a 2-D array
    shifts,             \* namespace.shifts[c][f][p]
    correlations,       \* namespace.correlations[c][f][p]: <<>> or <<score>>
    lock,               \* <<>> or <<c, f>>: the task holding the lock
    \* ---- _align_frame: task[c][f], the frame task's position and locals
    task,
    \* ---- history (not program state)
    inserted,           \* the <<c, f, p>> whose plane went into the accumulator
    correlated          \* the <<c, f, p>> the correlation primitive was called for

vars == <<n_processes, cpu_count, method, max_displacement, partitions, dataset,
          est_pc, tile, shifts_record, corr_record, first_shifts, second_shifts,
          result, run_pc, cycle_idx, map_generator, n_pools, sequences,
          offset, pixel_counts, shifts, correlations, lock, task,
          inserted, correlated>>

params == <<n_processes, cpu_count, method, max_displacement, partitions, dataset>>
est_vars == <<est_pc, tile, shifts_record, corr_record, first_shifts,
              second_shifts, result>>
run_vars == <<run_pc, cycle_idx, map_generator, n_pools, sequences>>
ns_vars == <<offset, pixel_counts, shifts, correlations>>

\* ----------------------------------------------------------------- helpers
Min(a, b) == IF a <= b THEN a ELSE b
Max(a, b) == IF a >= b THEN a ELSE b
Abs(a) == IF a >= 0 THEN a ELSE -a
\* Python 2's int / int on non-negative operands
IntDiv(a, b) == a \div b
\* float -> int of .astype(int): truncation toward zero of num / den, den > 0
Trunc(num, den) == IF num >= 0 THEN num \div den ELSE -((-num) \div den)

VAdd(a, b) == <<a[1] + b[1], a[2] + b[2]>>
VSub(a, b) == <<a[1] - b[1], a[2] - b[2]>>
VMin(a, b) == <<Min(a[1], b[1]), Min(a[2], b[2])>>
VMax(a, b) == <<Max(a[1], b[1]), Max(a[2], b[2])>>
VLeq(a, b) == a[1] <= b[1] /\ a[2] <= b[2]
VAbs(a) == <<Abs(a[1]), Abs(a[2])>>

\* np.zeros((rows, cols))
Zeros(rows, cols) == [y \in 1..rows |-> [x \in 1..cols |-> 0]]
Rows(a) == Len(a)
Cols(a) == IF Len(a) = 0 THEN 0 ELSE Len(a[1])
\* a cell of np.empty(...) holds no defined value until it is written: such a
\* cell is <<>> and a written cell <<value>>

\* ----------------------------------------------------------- the dataset
NumCycles == Len(dataset)
NumFrames == Len(dataset[1])
NumPlanes == Len(dataset[1][1])
\* dataset.frame_shape[1], dataset.frame_shape[2]
FrameRows == Rows(dataset[1][1][1])
FrameCols == Cols(dataset[1][1][1])
Entries == (1..NumCycles) \X (1..NumFrames) \X (1..NumPlanes)

\* the (1, 1) default of line 78
Partitions == IF partitions = <<>> THEN <<1, 1>> ELSE partitions
NumTiles == Partitions[1] * Partitions[2]
\* dy, dx of lines 79-80
TileRows == IntDiv(FrameRows, Partitions[1])
TileCols == IntDiv(FrameCols, Partitions[2])
\* the k-th (from 1) pair of it.product(range(py), range(px))
TileNy(k) == (k - 1) \div Partitions[2]
TileNx(k) == (k - 1) % Partitions[2]
\* s[:, :, ny*dy:(ny+1)*dy, nx*dx:(nx+1)*dx] of one plane
Crop(plane, k) ==
    [y \in 1..TileRows |->
        [x \in 1..TileCols |->
            plane[TileNy(k) * TileRows + y][TileNx(k) * TileCols + x]]]
CropDataset(k) ==
    [c \in 1..NumCycles |->
        [f \in 1..NumFrames |->
            [p \in 1..NumPlanes |-> Crop(dataset[c][f][p], k)]]]

\* ------------------------------------------------------- the accumulator
\* the frame's shape[1:-1] inside a partition run
PlaneShape == <<Rows(sequences[1][1][1]), Cols(sequences[1][1][1])>>
\* pixel_sums.shape[1:-1]
AccShape(counts) == <<Rows(counts[1]), Cols(counts[1])>>
\* (a test of the first cell of the plane only)
AnyCountFirstCell(plane_counts) == plane_counts[1][1] # 0
\* np.any(namespace.pixel_counts[p])
AnyCount(plane_counts) ==
    \E y \in 1..Rows(plane_counts) : \E x \in 1..Cols(plane_counts) :
        plane_counts[y][x] # 0

\* np.concatenate([np.zeros(pre_shape), a, np.zeros(post_shape)], axis=1) of
\* every plane: l zero rows before and r zero rows after
PadY(counts, l, r) ==
    [p \in 1..Len(counts) |->
        Zeros(l, Cols(counts[p])) \o counts[p] \o Zeros(r, Cols(counts[p]))]
\* the same along axis=2: l zero columns before and r after
PadX(counts, l, r) ==
    [p \in 1..Len(counts) |->
        [y \in 1..Rows(counts[p]) |->
            [x \in 1..l |-> 0] \o counts[p][y] \o [x \in 1..r |-> 0]]]

\* (the offset left as it was when rows or columns are added before)
OffsetKept(off, l) == off
\* line 274: offset += l
NewOffset(off, l) == VAdd(off, l)
\* (the assertion compiled away)
AreaUnchecked(grown, planes, plane_shape) == TRUE
\* line 276: np.prod(pixel_sums.shape) < 4 * np.prod(frame_shape), for the
\* enlarged arrays and the frame's (planes, rows, cols)
AreaAssertion(grown, planes, plane_shape) ==
    Len(grown) * AccShape(grown)[1] * AccShape(grown)[2]
        < AREA_FACTOR * (planes * plane_shape[1] * plane_shape[2])
\* _resize_arrays(shift, pixel_sums, pixel_counts, offset, frame_shape): ok is
\* FALSE when the assertion of line 276 fails (nothing is returned then)
_resize_arrays(shift, counts, off, plane_shape) ==
    LET pos == VAdd(shift, off)
        l == <<-Min(0, pos[1]), -Min(0, pos[2])>>
        r == <<Max(0, pos[1] + plane_shape[1] - AccShape(counts)[1]),
               Max(0, pos[2] + plane_shape[2] - AccShape(counts)[2])>>
        grow == l[1] > 0 \/ l[2] > 0 \/ r[1] > 0 \/ r[2] > 0
        grown == IF grow THEN PadX(PadY(counts, l[1], r[1]), l[2], r[2])
                 ELSE counts
    IN  [ok |-> AreaAssertion(grown, Len(counts), plane_shape),
         pixel_counts |-> grown,
         offset |-> IF grow THEN NewOffset(off, l) ELSE off]

\* (the region assigned instead of incremented)
_update_overwriting(counts, off, shift, plane, plane_idx) ==
    LET lo == VAdd(off, shift[plane_idx])
        hi == VAdd(lo, <<Rows(plane), Cols(plane)>>)
    IN  [counts EXCEPT ![plane_idx] =
            [y \in 1..Rows(@) |->
                [x \in 1..Cols(@) |->
                    IF /\ lo[1] <= y - 1 /\ y - 1 < hi[1]
                       /\ lo[2] <= x - 1 /\ x - 1 < hi[2]
                    THEN (IF plane[y - lo[1]][x - lo[2]] THEN 1 ELSE 0)
                    ELSE @[y][x]]]]
\* _update_sums_and_counts(pixel_sums, pixel_counts, offset, shift, plane,
\* plane_idx): shift is the frame's row of the shift record
_update_sums_and_counts(counts, off, shift, plane, plane_idx) ==
    LET lo == VAdd(off, shift[plane_idx])
        hi == VAdd(lo, <<Rows(plane), Cols(plane)>>)
    IN  [counts EXCEPT ![plane_idx] =
            [y \in 1..Rows(@) |->
                [x \in 1..Cols(@) |->
                    IF /\ lo[1] <= y - 1 /\ y - 1 < hi[1]
                       /\ lo[2] <= x - 1 /\ x - 1 < hi[2]
                       /\ plane[y - lo[1]][x - lo[2]]
                    THEN @[y][x] + 1 ELSE @[y][x]]]]

\* ------------------------------------------------------ the shift record
\* list(it.chain(*it.chain(*shifts))): every (cycle, frame, plane) row
AllShifts(rec) ==
    {rec[c][f][p] : c \in 1..Len(rec), f \in 1..Len(rec[1]), p \in 1..Len(rec[1][1])}
SetMin(S) == CHOOSE a \in S : \A b \in S : a <= b
SetMax(S) == CHOOSE a \in S : \A b \in S : a >= b
\* np.min(..., axis=0), np.max(..., axis=0)
min_shift(rec) == <<SetMin({s[1] : s \in AllShifts(rec)}),
                    SetMin({s[2] : s \in AllShifts(rec)})>>
max_shift(rec) == <<SetMax({s[1] : s \in AllShifts(rec)}),
                    SetMax({s[2] : s \in AllShifts(rec)})>>

\* ------------------------------------------------- the explored inputs
\* shift - p_offset for the shifts align_cross_correlation can return: up to
\* MaxShift pixels along one axis, inside the window it was given or not
Displacements ==
    {d \in (-MaxShift..MaxShift) \X (-MaxShift..MaxShift) : d[1] = 0 \/ d[2] = 0}
\* the scores it can return.  With a single tile the scores are recorded and
\* returned but never compared (line 93), and one value is explored.
Scores == IF NumTiles > 1 THEN {0, 1} ELSE {1}
Methods == {"correlation", "ECC", "other"}
WorkerCounts == {<<>>, <<1>>, <<2>>, <<3>>}
CpuCounts == {1, 6}
\* a dataset of the given size whose samples are finite but in the planes of
\* nan, which have no finite sample (hole = <<0, 0>>) or are NaN at the
\* pixel hole = <<y, x>> (from 1)
MakeDataset(nc, nf, np, rows, cols, nan, hole) ==
    [c \in 1..nc |-> [f \in 1..nf |-> [p \in 1..np |->
        [y \in 1..rows |-> [x \in 1..cols |->
            ~(<<c, f, p>> \in nan /\ hole \in {<<0, 0>>, <<y, x>>})]]]]]
Holes(rows, cols) == {<<0, 0>>} \cup ((1..rows) \X (1..cols))
DatasetSizes ==
    {d \in (1..MaxCycles) \X (1..MaxFrames) \X (1..MaxPlanes) :
        d[1] * d[2] * d[3] <= MaxEntries}

\* the state of a frame task that has not started
QueuedTask ==
    [pc |-> "queued", p |-> 1, p_offset |-> <<0, 0>>, snapshot |-> <<>>,
     shift |-> <<0, 0>>, p_corr |-> 0, error |-> "", line |-> 0]

\* The inputs explored, i = [np, cpu, me, md, pa, size, rows, cols, nan, hole]:
\* the union of seven families, each varying some parameters over a dataset
\* of every size.  A frame of one partition is 2 x 1 pixels.
OnePartition(i) == i.pa = <<>> /\ i.rows = 2 /\ i.cols = 1
\* workers in parallel, with and without a bound on the displacement
ParallelInput(i) ==
    /\ OnePartition(i)
    /\ i.np = <<3>> /\ i.cpu = 1 /\ i.me = "correlation" /\ i.nan = {}
    /\ i.md \in {<<>>, <<1, 1>>}
\* every worker count
WorkerCountInput(i) ==
    /\ OnePartition(i)
    /\ i.np = <<>> \/ i.cpu = 1
    /\ i.me = "correlation" /\ i.md = <<>> /\ i.nan = {}
\* a plane without a finite sample, in the datasets below the largest
NaNInput(i) ==
    /\ OnePartition(i)
    /\ i.np \in {<<1>>, <<3>>} /\ i.cpu = 1 /\ i.me = "correlation" /\ i.md = <<>>
    /\ i.size[1] * i.size[2] * i.size[3] < MaxEntries
\* the methods that are not implemented
MethodInput(i) ==
    /\ OnePartition(i)
    /\ i.np \in {<<1>>, <<3>>} /\ i.cpu = 1 /\ i.me # "correlation" /\ i.md = <<>>
\* a grid of partitions of one pixel each, the tiles run one after another
\* (a grid of several columns over a cycle of one frame); one pixel of the
\* first plane may be NaN
PartitionedInput(i) ==
    /\ i.pa \in {<<1, 1>>, <<2, 1>>, <<3, 1>>, <<2, 2>>}
    /\ i.rows = i.pa[1] /\ i.cols = i.pa[2]
    /\ i.np = <<1>> /\ i.cpu = 1 /\ i.me = "correlation" /\ i.md = <<>>
    /\ i.size[1] = 1 /\ i.size[2] * i.size[3] = 2
    /\ i.pa[2] > 1 => i.size[2] = 1
    /\ i.nan \subseteq {<<1, 1, 1>>} /\ i.hole # <<0, 0>>
\* a method that is not implemented, over a grid of two tiles
FailingTileInput(i) ==
    /\ i.pa = <<2, 1>> /\ i.rows = 2 /\ i.cols = 1
    /\ i.np = <<1>> /\ i.cpu = 1 /\ i.me = "ECC" /\ i.md = <<>>
    /\ i.size = <<1, 2, 1>> /\ i.nan = {}
\* a bound with a component equal to 0, in the datasets of up to two entries
ZeroBoundInput(i) ==
    /\ OnePartition(i)
    /\ i.np = <<1>> /\ i.cpu = 1 /\ i.me = "correlation" /\ i.md = <<0, 1>>
    /\ i.size[1] * i.size[2] * i.size[3] <= 2 /\ i.nan = {}
Explored(i) ==
    \/ ParallelInput(i)
    \/ WorkerCountInput(i)
    \/ NaNInput(i)
    \/ MethodInput(i)
    \/ PartitionedInput(i)
    \/ FailingTileInput(i)
    \/ ZeroBoundInput(i)

Init ==
    /\ \E np \in WorkerCounts, cpu \in CpuCounts, me \in Methods,
          md \in {<<>>, <<1, 1>>, <<0, 1>>},
          pa \in {<<>>, <<1, 1>>, <<2, 1>>, <<3, 1>>, <<2, 2>>},
          size \in DatasetSizes, rows \in 1..3, cols \in 1..2 :
          \E nan \in SUBSET ((1..size[1]) \X (1..size[2]) \X (1..size[3])),
             hole \in Holes(rows, cols) :
            /\ Cardinality(nan) <= MaxNaNPlanes
            /\ Explored([np |-> np, cpu |-> cpu, me |-> me, md |-> md, pa |-> pa,
                         size |-> size, rows |-> rows, cols |-> cols, nan |-> nan,
                         hole |-> hole])
            /\ n_processes = np
            /\ cpu_count = cpu
            /\ method = me
            /\ max_displacement = md
            /\ partitions = pa
            /\ dataset = MakeDataset(size[1], size[2], size[3], rows, cols, nan,
                                     hole)
    /\ est_pc = "tiles"
    /\ tile = 1
    /\ shifts_record = <<>>
    /\ corr_record = <<>>
    /\ first_shifts = <<>>
    /\ second_shifts = <<>>
    /\ result = <<>>
    /\ run_pc = "idle"
    /\ cycle_idx = 1
    /\ map_generator = "none"
    /\ n_pools = 0
    /\ sequences = <<>>
    /\ offset = <<0, 0>>
    /\ pixel_counts = <<>>
    /\ shifts = <<>>
    /\ correlations = <<>>
    /\ lock = <<>>
    /\ task = <<>>
    /\ inserted = {}
    /\ correlated = {}

\* ------------------------------------------------- _frame_alignment_base
\* lines 145-150
PoolSize ==
    LET n == IF n_processes = <<>> THEN IntDiv(cpu_count, 2) ELSE n_processes[1]
    IN  IF n = 0 THEN 1 ELSE n
\* line 167, `n_processes > 1`: Python 2 orders None below every number, so
\* the test is false when n_processes is None
UsePool == n_processes # <<>> /\ n_processes[1] > 1

\* lines 86-90 and 145-164: the tile is cropped and _frame_alignment_base
\* builds the namespace, the lock and the pool
StartTile ==
    /\ est_pc = "tiles"
    /\ tile <= NumTiles
    /\ est_pc' = "run"
    /\ sequences' = CropDataset(tile)
    /\ n_pools' = PoolSize
    /\ offset' = <<0, 0>>
    /\ pixel_counts' = [p \in 1..NumPlanes |-> Zeros(TileRows, TileCols)]
    /\ shifts' = [c \in 1..NumCycles |-> [f \in 1..NumFrames |->
                    [p \in 1..NumPlanes |-> <<0, 0>>]]]
    /\ correlations' = [c \in 1..NumCycles |-> [f \in 1..NumFrames |->
                          [p \in 1..NumPlanes |-> <<>>]]]
    /\ lock' = <<>>
    /\ task' = [c \in 1..NumCycles |-> [f \in 1..NumFrames |-> QueuedTask]]
    /\ run_pc' = "dispatch"
    /\ cycle_idx' = 1
    /\ map_generator' = "none"
    /\ inserted' = {}
    /\ correlated' = {}
    /\ UNCHANGED <<params, tile, shifts_record, corr_record, first_shifts,
                   second_shifts, result>>

\* lines 166-177: the head of the loop over the cycles and the choice of the
\* map
DispatchCycle ==
    /\ est_pc = "run"
    /\ run_pc = "dispatch"
    /\ cycle_idx <= NumCycles
    /\ map_generator' = IF UsePool THEN "imap_unordered" ELSE "imap"
    /\ run_pc' = "collect"
    /\ UNCHANGED <<params, est_vars, cycle_idx, n_pools, sequences, ns_vars,
                   lock, task, inserted, correlated>>

\* The frames one worker runs in a row: a chunk of imap_unordered (line 172),
\* or the whole cycle for it.imap, which runs the frames one by one.
ChunkSize ==
    IF map_generator = "imap_unordered"
    THEN 1 + IntDiv(NumFrames, n_pools)
    ELSE NumFrames
ChunkOf(f) == (f - 1) \div ChunkSize
FirstOfChunk(f) == (f - 1) % ChunkSize = 0
ChunkFrames(k) == {f \in 1..NumFrames : ChunkOf(f) = k}
\* a chunk a pool worker is running: started, not finished, not failed
ChunkBusy(c, k) ==
    /\ \E f \in ChunkFrames(k) : task[c][f].pc # "queued"
    /\ \E f \in ChunkFrames(k) : task[c][f].pc # "done"
    /\ \A f \in ChunkFrames(k) : task[c][f].pc # "failed"
BusyWorkers(c) ==
    Cardinality({k \in 0..(NumFrames - 1) : ChunkFrames(k) # {} /\ ChunkBusy(c, k)})
\* it.imap runs on the caller's thread (one worker); the pool has n_pools
Workers == IF map_generator = "imap_unordered" THEN n_pools ELSE 1

\* (a loop that stops at the first result instead of at StopIteration)
CycleCompleteFirstResult(c) == \E f \in 1..NumFrames : task[c][f].pc = "done"
\* lines 180-184, StopIteration: every task of the cycle has returned
CycleComplete(c) == \A f \in 1..NumFrames : task[c][f].pc = "done"
CollectCycle ==
    /\ est_pc = "run"
    /\ run_pc = "collect"
    /\ CycleComplete(cycle_idx)
    /\ cycle_idx' = cycle_idx + 1
    /\ run_pc' = "dispatch"
    /\ UNCHANGED <<params, est_vars, map_generator, n_pools, sequences,
                   ns_vars, lock, task, inserted, correlated>>

\* (a loop that drops the exception of a failed task and goes on)
RaiseTaskFailureSwallowed ==
    /\ est_pc = "run"
    /\ run_pc = "collect"
    /\ \E f \in 1..NumFrames : task[cycle_idx][f].pc = "failed"
    /\ cycle_idx' = cycle_idx + 1
    /\ run_pc' = "dispatch"
    /\ UNCHANGED <<params, est_vars, map_generator, n_pools, sequences,
                   ns_vars, lock, task, inserted, correlated>>
\* line 182: next() re-raises the exception of a failed task; nothing
\* catches it in _frame_alignment_base or in _estimate
RaiseTaskFailure ==
    /\ est_pc = "run"
    /\ run_pc = "collect"
    /\ \E f \in 1..NumFrames : task[cycle_idx][f].pc = "failed"
    /\ est_pc' = "failed"
    /\ UNCHANGED <<params, tile, shifts_record, corr_record, first_shifts,
                   second_shifts, result, run_vars, ns_vars, lock, task,
                   inserted, correlated>>

\* ------------------------------------------------------------ _align_frame
\* line 308-309
Bounded ==
    max_displacement # <<>> /\ max_displacement[1] > 0 /\ max_displacement[2] > 0
\* lines 314-316, from the shift record read at line 303 (its min_shift and
\* max_shift) and the offset read with it
displacement_bounds(p_offset, snapshot) ==
    IF snapshot = <<>> THEN <<>>
    ELSE <<VAdd(p_offset, VMin(VSub(snapshot[2], max_displacement), snapshot[1])),
           VAdd(p_offset, VMax(VAdd(snapshot[1], max_displacement), snapshot[2]))>>
\* (the assertions compiled away)
ValidShiftUnchecked(shift, p_offset, bounds) == TRUE
\* the assertions of lines 321-324
ValidShift(shift, p_offset, bounds) ==
    bounds # <<>> =>
        /\ VLeq(bounds[1], shift)
        /\ VLeq(shift, bounds[2])
        /\ VLeq(VAbs(VSub(shift, p_offset)), max_displacement)

\* the task goes on to its next plane (line 279) or returns
AfterPlane(t) ==
    IF t.p < NumPlanes
    THEN [QueuedTask EXCEPT !.pc = "chk_wait", !.p = t.p + 1]
    ELSE [QueuedTask EXCEPT !.pc = "done", !.p = t.p]
\* the task ends with the exception error, raised at the given line
Failed(t, error, line) ==
    [QueuedTask EXCEPT !.pc = "failed", !.p = t.p, !.error = error, !.line = line]

\* a worker takes the frame's task: the first of a chunk when a worker is
\* free, the others when the frame before it has returned
StartTask(c, f) ==
    /\ run_pc = "collect"
    /\ c = cycle_idx
    /\ task[c][f].pc = "queued"
    /\ IF FirstOfChunk(f) THEN BusyWorkers(c) < Workers
       ELSE task[c][f - 1].pc = "done"
    /\ task' = [task EXCEPT ![c][f].pc = "chk_wait"]
    /\ UNCHANGED <<params, est_vars, run_vars, ns_vars, lock, inserted,
                   correlated>>

\* `with lock:` of lines 283, 299, 330 and 338
Held(pc) ==
    CASE pc = "chk_wait" -> "chk"
      [] pc = "ref_wait" -> "ref"
      [] pc = "rec_wait" -> "rec"
      [] pc = "ins_wait" -> "ins"
\* (a lock that is taken without waiting for it to be free)
AcquireUnguarded(c, f) ==
    /\ task[c][f].pc \in {"chk_wait", "ref_wait", "rec_wait", "ins_wait"}
    /\ lock' = <<c, f>>
    /\ task' = [task EXCEPT ![c][f].pc = Held(@)]
    /\ UNCHANGED <<params, est_vars, run_vars, ns_vars, inserted, correlated>>
Acquire(c, f) ==
    /\ task[c][f].pc \in {"chk_wait", "ref_wait", "rec_wait", "ins_wait"}
    /\ lock = <<>>
    /\ lock' = <<c, f>>
    /\ task' = [task EXCEPT ![c][f].pc = Held(@)]
    /\ UNCHANGED <<params, est_vars, run_vars, ns_vars, inserted, correlated>>

\* lines 283-297: the emptiness test and, on an empty plane, the bootstrap
CheckAndSeed(c, f) ==
    /\ task[c][f].pc = "chk"
    /\ LET p == task[c][f].p
           any_check == AnyCount(pixel_counts[p])
           s == [shifts EXCEPT ![c][f][p] = <<0, 0>>]
       IN  IF ~any_check
           THEN /\ correlations' =
                      [correlations EXCEPT ![c][f][p] = <<BOOTSTRAP_CORR>>]
                /\ shifts' = s
                /\ pixel_counts' = _update_sums_and_counts(
                      pixel_counts, offset, s[c][f], sequences[c][f][p], p)
                /\ inserted' = inserted \cup {<<c, f, p>>}
                /\ task' = [task EXCEPT ![c][f] = AfterPlane(@)]
           ELSE /\ task' = [task EXCEPT ![c][f].pc = "ref_wait"]
                /\ UNCHANGED <<correlations, shifts, pixel_counts, inserted>>
    /\ lock' = <<>>
    /\ UNCHANGED <<params, est_vars, run_vars, offset, correlated>>

\* lines 299-303: the reference, the offset and the shift record are read
\* (of the record, only min_shift and max_shift are used, and only when
\* the displacement is bounded)
ReadReference(c, f) ==
    /\ task[c][f].pc = "ref"
    /\ task' = [task EXCEPT
                  ![c][f].pc = "corr",
                  ![c][f].p_offset = offset,
                  ![c][f].snapshot =
                      IF method = "correlation" /\ Bounded
                      THEN <<min_shift(shifts), max_shift(shifts)>> ELSE <<>>]
    /\ lock' = <<>>
    /\ UNCHANGED <<params, est_vars, run_vars, ns_vars, inserted, correlated>>

\* lines 304-329, outside the lock: the window, the call of
\* align_cross_correlation and the validation of what it returned
Correlate(c, f) ==
    /\ task[c][f].pc = "corr"
    /\ LET t == task[c][f] IN
       CASE method = "correlation" ->
              \E d \in Displacements, score \in Scores :
                LET shift == VAdd(t.p_offset, d)
                    bounds == displacement_bounds(t.p_offset, t.snapshot)
                IN  /\ task' = [task EXCEPT ![c][f] =
                          IF ValidShift(shift, t.p_offset, bounds)
                          THEN [t EXCEPT !.pc = "rec_wait", !.shift = shift,
                                         !.p_corr = score, !.snapshot = <<>>]
                          ELSE Failed(t, "AssertionError", 322)]
                    /\ correlated' = correlated \cup {<<c, f, t.p>>}
         [] method = "ECC" ->
              /\ task' = [task EXCEPT ![c][f] = Failed(t, "NotImplementedError", 326)]
              /\ UNCHANGED correlated
         [] OTHER ->
              /\ task' = [task EXCEPT ![c][f] = Failed(t, "ValueError", 329)]
              /\ UNCHANGED correlated
    /\ UNCHANGED <<params, est_vars, run_vars, ns_vars, lock, inserted>>

\* (a shift recorded relative to the offset of the moment)
RecordShiftCurrentOffset(c, f) ==
    /\ task[c][f].pc = "rec"
    /\ LET t == task[c][f] IN
       /\ shifts' = [shifts EXCEPT ![c][f][t.p] = VSub(t.shift, offset)]
       /\ correlations' = [correlations EXCEPT ![c][f][t.p] = <<t.p_corr>>]
       /\ task' = [task EXCEPT ![c][f] =
                     [QueuedTask EXCEPT !.pc = "ins_wait", !.p = t.p]]
    /\ lock' = <<>>
    /\ UNCHANGED <<params, est_vars, run_vars, offset, pixel_counts, inserted,
                   correlated>>
\* lines 330-336: the shift, relative to the offset read with the reference,
\* and the score are written to the records
RecordShift(c, f) ==
    /\ task[c][f].pc = "rec"
    /\ LET t == task[c][f] IN
       /\ shifts' = [shifts EXCEPT ![c][f][t.p] = VSub(t.shift, t.p_offset)]
       /\ correlations' = [correlations EXCEPT ![c][f][t.p] = <<t.p_corr>>]
       /\ task' = [task EXCEPT ![c][f] =
                     [QueuedTask EXCEPT !.pc = "ins_wait", !.p = t.p]]
    /\ lock' = <<>>
    /\ UNCHANGED <<params, est_vars, run_vars, offset, pixel_counts, inserted,
                   correlated>>

\* (a lock released by hand after the insertion, and so not when
\* _resize_arrays raises)
GrowAndInsertKeepsLock(c, f) ==
    /\ task[c][f].pc = "ins"
    /\ LET t == task[c][f]
           r == _resize_arrays(shifts[c][f][t.p], pixel_counts, offset,
                               PlaneShape)
       IN  IF r.ok
           THEN /\ offset' = r.offset
                /\ pixel_counts' = _update_sums_and_counts(
                      r.pixel_counts, r.offset, shifts[c][f],
                      sequences[c][f][t.p], t.p)
                /\ inserted' = inserted \cup {<<c, f, t.p>>}
                /\ task' = [task EXCEPT ![c][f] = AfterPlane(t)]
                /\ lock' = <<>>
           ELSE /\ task' = [task EXCEPT ![c][f] = Failed(t, "AssertionError", 276)]
                /\ UNCHANGED <<offset, pixel_counts, inserted, lock>>
    /\ UNCHANGED <<params, est_vars, run_vars, shifts, correlations, correlated>>
\* (the enlarged arrays stored before their size is checked)
GrowAndInsertStoresFirst(c, f) ==
    /\ task[c][f].pc = "ins"
    /\ LET t == task[c][f]
           r == _resize_arrays(shifts[c][f][t.p], pixel_counts, offset,
                               PlaneShape)
       IN  IF r.ok
           THEN /\ offset' = r.offset
                /\ pixel_counts' = _update_sums_and_counts(
                      r.pixel_counts, r.offset, shifts[c][f],
                      sequences[c][f][t.p], t.p)
                /\ inserted' = inserted \cup {<<c, f, t.p>>}
                /\ task' = [task EXCEPT ![c][f] = AfterPlane(t)]
           ELSE /\ task' = [task EXCEPT ![c][f] = Failed(t, "AssertionError", 276)]
                /\ offset' = r.offset
                /\ pixel_counts' = r.pixel_counts
                /\ UNCHANGED inserted
    /\ lock' = <<>>
    /\ UNCHANGED <<params, est_vars, run_vars, shifts, correlations, correlated>>
\* lines 338-348: the accumulator is enlarged for the recorded shift and
\* the plane is added; the assertion of line 276 fails the task before
\* anything is stored
GrowAndInsert(c, f) ==
    /\ task[c][f].pc = "ins"
    /\ LET t == task[c][f]
           r == _resize_arrays(shifts[c][f][t.p], pixel_counts, offset,
                               PlaneShape)
       IN  IF r.ok
           THEN /\ offset' = r.offset
                /\ pixel_counts' = _update_sums_and_counts(
                      r.pixel_counts, r.offset, shifts[c][f],
                      sequences[c][f][t.p], t.p)
                /\ inserted' = inserted \cup {<<c, f, t.p>>}
                /\ task' = [task EXCEPT ![c][f] = AfterPlane(t)]
           ELSE /\ task' = [task EXCEPT ![c][f] = Failed(t, "AssertionError", 276)]
                /\ UNCHANGED <<offset, pixel_counts, inserted>>
    /\ lock' = <<>>
    /\ UNCHANGED <<params, est_vars, run_vars, shifts, correlations, correlated>>

\* ------------------------------------------------------------ _align_planes
RECURSIVE SumAxis(_, _, _)
\* the sum of component i of the rows rec[e], e in S
SumAxis(rec, S, i) ==
    IF S = {} THEN 0
    ELSE LET e == CHOOSE x \in S : TRUE
         IN  rec[e[1]][e[2]][e[3]][i] + SumAxis(rec, S \ {e}, i)
RecEntries(rec) == (1..Len(rec)) \X (1..Len(rec[1])) \X (1..Len(rec[1][1]))
IsPowerOfTwo(n) == \E k \in 0..30 : n = 2 ^ k
\* int(a/n - b/n) in float64, for integers a and b and n > 0.  The quotients
\* are rounded before they are subtracted: when the exact difference (a-b)/n
\* is a non-zero integer k and the quotients are inexact, the float
\* difference is k or just short of it, and the truncation gives k or the
\* next integer toward zero; which of the two depends on the two roundings.
TruncMeanDiff(a, b, n) ==
    LET k == Trunc(a - b, n)
    IN  IF (a - b) % n = 0 /\ a % n # 0 /\ ~IsPowerOfTwo(n) /\ k # 0
        THEN {k, IF k > 0 THEN k - 1 ELSE k + 1}
        ELSE {k}
\* lines 192-194.  mean_shift is the mean of every row of the record over
\* axis 0, a 2-vector (mean y, mean x); mean_shift[0] is the mean y, so the
\* alteration is (0, int(mean x - mean y)): the values it can take
Alterations(rec) ==
    LET n == Cardinality(RecEntries(rec))
        sy == SumAxis(rec, RecEntries(rec), 1)
        sx == SumAxis(rec, RecEntries(rec), 2)
    IN  {<<0, a>> : a \in TruncMeanDiff(sx, sy, n)}
\* lines 195-196: seq -= alteration, on every row of every cycle
_align_planes(rec, alteration) ==
    [c \in 1..Len(rec) |-> [f \in 1..Len(rec[1]) |-> [p \in 1..Len(rec[1][1]) |->
        VSub(rec[c][f][p], alteration)]]]

\* line 200, namespace.correlations as _frame_alignment_base returns it: the
\* scores written; a cell of np.empty never written holds any value
ReturnedCorrelations ==
    {r \in [1..NumCycles -> [1..NumFrames -> [1..NumPlanes ->
                Scores \cup {BOOTSTRAP_CORR}]]] :
        \A e \in Entries :
            correlations[e[1]][e[2]][e[3]] # <<>> =>
                r[e[1]][e[2]][e[3]] = correlations[e[1]][e[2]][e[3]][1]}

\* lines 187-200 and 91-93: the loop over the cycles is over; the planes are
\* aligned on the copy of the record _frame_alignment_base returns, and
\* _estimate appends the tile's shifts and correlations
FinishRun ==
    /\ est_pc = "run"
    /\ run_pc = "dispatch"
    /\ cycle_idx > NumCycles
    /\ \E alteration \in Alterations(shifts) :
          shifts_record' = Append(shifts_record, _align_planes(shifts, alteration))
    /\ \E returned \in ReturnedCorrelations :
          corr_record' = Append(corr_record, returned)
    /\ run_pc' = "idle"
    /\ map_generator' = "none"
    /\ IF Len(shifts_record) + 1 > 1
       THEN est_pc' = "check" /\ tile' = tile
       ELSE est_pc' = "tiles" /\ tile' = tile + 1
    /\ UNCHANGED <<params, first_shifts, second_shifts, result, cycle_idx,
                   n_pools, sequences, ns_vars, lock, task, inserted, correlated>>

\* ------------------------------------------------- the agreement of tiles
Tiles == 1..Len(corr_record)
\* second, first = np.argpartition(corr_array, -2, axis=0)[-2:] for one
\* (cycle, frame, plane): first is a tile of highest score and second a tile
\* of highest score among the others; equal scores leave the choice to the
\* selection algorithm
\* (the two indices unpacked in the other order)
BestTwoSwapped(e) ==
    LET sc(t) == corr_record[t][e[1]][e[2]][e[3]]
    IN  {pair \in Tiles \X Tiles :
            /\ pair[1] # pair[2]
            /\ \A t \in Tiles : sc(t) <= sc(pair[2])
            /\ \A t \in Tiles \ {pair[2]} : sc(t) <= sc(pair[1])}
BestTwo(e) ==
    LET sc(t) == corr_record[t][e[1]][e[2]][e[3]]
    IN  {pair \in Tiles \X Tiles :
            /\ pair[1] # pair[2]
            /\ \A t \in Tiles : sc(t) <= sc(pair[1])
            /\ \A t \in Tiles \ {pair[1]} : sc(t) <= sc(pair[2])}
\* first.choose(s) / second.choose(s) over the two axes of the shifts
Chosen(sel, i) ==
    [c \in 1..NumCycles |-> [f \in 1..NumFrames |-> [p \in 1..NumPlanes |->
        shifts_record[sel[<<c, f, p>>][i]][c][f][p]]]]
\* np.sum((f - s)**2, axis=-1) summed over every entry
SquaredDistance(a, b) == (a[1] - b[1]) * (a[1] - b[1]) + (a[2] - b[2]) * (a[2] - b[2])
RECURSIVE TotalDistance(_, _, _)
TotalDistance(fs, ss, S) ==
    IF S = {} THEN 0
    ELSE LET e == CHOOSE x \in S : TRUE
         IN  SquaredDistance(fs[e[1]][e[2]][e[3]], ss[e[1]][e[2]][e[3]])
             + TotalDistance(fs, ss, S \ {e})
\* (a strict comparison replaced by an inclusive one)
AgreeInclusive(fs, ss) ==
    TotalDistance(fs, ss, Entries)
        <= DIST_CRITERION * DIST_CRITERION * Cardinality(Entries)
\* lines 113-115: np.mean(...) < DIST_CRITERION ** 2, the mean over all
\* entries (a sum of integers over their number)
Agree(fs, ss) ==
    TotalDistance(fs, ss, Entries)
        < DIST_CRITERION * DIST_CRITERION * Cardinality(Entries)

\* lines 93-116
AgreementCheck ==
    /\ est_pc = "check"
    /\ \E sel \in [Entries -> Tiles \X Tiles] :
         /\ \A e \in Entries : sel[e] \in BestTwo(e)
         /\ first_shifts' = <<Chosen(sel, 1)>>
         /\ second_shifts' = <<Chosen(sel, 2)>>
    /\ IF Agree(first_shifts'[1], second_shifts'[1])
       THEN est_pc' = "break" /\ tile' = tile
       ELSE est_pc' = "tiles" /\ tile' = tile + 1
    /\ UNCHANGED <<params, shifts_record, corr_record, result, run_vars,
                   ns_vars, lock, task, inserted, correlated>>

\* (a return of first_shifts whose NameError nothing catches)
ReturnWithoutFallback ==
    /\ est_pc = "break" \/ (est_pc = "tiles" /\ tile > NumTiles)
    /\ IF first_shifts # <<>>
       THEN result' = first_shifts /\ est_pc' = "returned"
       ELSE result' = result /\ est_pc' = "failed"
    /\ UNCHANGED <<params, tile, shifts_record, corr_record, first_shifts,
                   second_shifts, run_vars, ns_vars, lock, task, inserted,
                   correlated>>
\* lines 117-120: first_shifts when it is bound, else (NameError) the shifts
\* of the last tile
Return ==
    /\ est_pc = "break" \/ (est_pc = "tiles" /\ tile > NumTiles)
    /\ result' = IF first_shifts # <<>> THEN first_shifts
                 ELSE <<shifts_record[Len(shifts_record)]>>
    /\ est_pc' = "returned"
    /\ UNCHANGED <<params, tile, shifts_record, corr_record, first_shifts,
                   second_shifts, run_vars, ns_vars, lock, task, inserted,
                   correlated>>

\* ------------------------------------------------------ the specification
\* the frame tasks of the partition run
Tasks == IF task = <<>> THEN {} ELSE (1..NumCycles) \X (1..NumFrames)

Next ==
    \/ StartTile
    \/ DispatchCycle
    \/ CollectCycle
    \/ RaiseTaskFailure
    \/ FinishRun
    \/ AgreementCheck
    \/ Return
    \/ \E id \in Tasks : StartTask(id[1], id[2])
    \/ \E id \in Tasks : Acquire(id[1], id[2])
    \/ \E id \in Tasks : CheckAndSeed(id[1], id[2])
    \/ \E id \in Tasks : ReadReference(id[1], id[2])
    \/ \E id \in Tasks : Correlate(id[1], id[2])
    \/ \E id \in Tasks : RecordShift(id[1], id[2])
    \/ \E id \in Tasks : GrowAndInsert(id[1], id[2])

Spec == Init /\ [][Next]_vars

\* The processes that can run are scheduled: the main process and the
\* workers are operating-system processes, and a step that is possible is
\* eventually taken by one of them.
\* The inputs of the runs checked for termination: a pool of three workers
\* under a bound on the displacement (one cycle, or cycles of one frame),
\* and without one over a cycle of two frames of two planes (where the
\* accumulator can outgrow the area bound), and the grid of two tiles.
LiveInputs ==
    \/ /\ n_processes = <<3>> /\ partitions = <<>>
       /\ \/ max_displacement # <<>> /\ (NumCycles = 1 \/ NumFrames = 1)
          \/ NumCycles = 1 /\ NumFrames = 2 /\ NumPlanes = 2
    \/ partitions = <<2, 1>>
LiveInit == Init /\ LiveInputs
FairSpec == LiveInit /\ [][Next]_vars /\ WF_vars(Next)

TypeOK ==
    /\ est_pc \in {"tiles", "run", "check", "break", "returned", "failed"}
    /\ run_pc \in {"idle", "dispatch", "collect"}
    /\ map_generator \in {"none", "imap_unordered", "imap"}
    /\ lock = <<>> \/ lock \in Tasks

\* ================================================================== claims
\* entry <<c, f, p>> has its shift and score written and its plane inserted
EntryComplete(e) ==
    /\ e \in inserted
    /\ correlations[e[1]][e[2]][e[3]] # <<>>
TaskStarted(c, f) == task[c][f].pc # "queued"

\* C1: cycles are hard barriers.  Whenever a frame task of a cycle has
\* started, every frame task of every earlier cycle has returned, with the
\* shift and score of each of its planes written and each plane inserted
\* into the accumulator; on the pooled and on the in-process path, under
\* every interleaving of the workers.
C1_CycleBarrier ==
    \A later \in Tasks : \A earlier \in Tasks :
        (earlier[1] < later[1] /\ TaskStarted(later[1], later[2])) =>
            /\ task[earlier[1]][earlier[2]].pc = "done"
            /\ \A p \in 1..NumPlanes :
                  EntryComplete(<<earlier[1], earlier[2], p>>)
\* two tasks of the second cycle are in progress at once in the pool
C1_Witness ==
    /\ task # <<>>
    /\ map_generator = "imap_unordered"
    /\ NumCycles = 2 /\ NumFrames = 2
    /\ \A f \in 1..2 : task[2][f].pc \notin {"queued", "done", "failed"}

\* the count of plane p is zero everywhere
PlaneEmpty(p) ==
    \A y \in 1..Len(pixel_counts[p]) : \A x \in 1..Len(pixel_counts[p][y]) :
        pixel_counts[p][y][x] = 0
\* the entries inserted without a call of the correlation primitive
Bootstrapped == inserted \ correlated
\* C2: bootstrap.  A (cycle, frame) entry that examines a plane whose count
\* is zero everywhere is recorded with shift (0,0) and score 1 and its plane
\* is added at the offset (shift (0,0)), the primitive not being called,
\* whatever the plane holds; the record of such an entry stays (0,0) and 1.
C2_Bootstrap ==
    /\ [][\A id \in Tasks :
            LET c == id[1]
                f == id[2]
                p == task[c][f].p
                plane == sequences[c][f][p]
            IN  (task[c][f].pc = "chk" /\ task'[c][f] # task[c][f] /\ PlaneEmpty(p)) =>
                  /\ shifts'[c][f][p] = <<0, 0>>
                  /\ correlations'[c][f][p] = <<1>>
                  /\ <<c, f, p>> \in inserted'
                  /\ <<c, f, p>> \notin correlated'
                  /\ offset' = offset
                  /\ \A y \in 1..Len(pixel_counts'[p]) :
                       \A x \in 1..Len(pixel_counts'[p][y]) :
                         pixel_counts'[p][y][x] =
                           IF /\ y - offset[1] \in 1..Len(plane)
                              /\ x - offset[2] \in 1..Len(plane[1])
                              /\ plane[y - offset[1]][x - offset[2]]
                           THEN 1 ELSE 0]_vars
    /\ [](\A e \in Bootstrapped :
            /\ shifts[e[1]][e[2]][e[3]] = <<0, 0>>
            /\ correlations[e[1]][e[2]][e[3]] = <<1>>)
\* two entries of one plane both took the bootstrap path (the first has no
\* finite sample), after the accumulator was enlarged by another plane
C2_Witness ==
    \E e1 \in Bootstrapped : \E e2 \in Bootstrapped :
        /\ e1 # e2 /\ e1[3] = e2[3]
        /\ ~PlaneEmpty(e1[3])

\* C3: bound enforcement.  With max_displacement = m, all components > 0,
\* every shift in the shift record of a partition run has |s| <= m in each
\* axis, and a task that is about to record a shift holds a primitive
\* result with |shift - p_offset| <= m: a result outside is never recorded.
C3_BoundEnforced ==
    (max_displacement # <<>> /\ max_displacement[1] > 0 /\ max_displacement[2] > 0) =>
        /\ \A e \in (IF shifts = <<>> THEN {} ELSE Entries) :
              LET s == shifts[e[1]][e[2]][e[3]]
              IN  /\ Abs(s[1]) <= max_displacement[1]
                  /\ Abs(s[2]) <= max_displacement[2]
        /\ \A id \in Tasks :
              LET t == task[id[1]][id[2]]
              IN  t.pc \in {"rec_wait", "rec"} =>
                    /\ Abs(t.shift[1] - t.p_offset[1]) <= max_displacement[1]
                    /\ Abs(t.shift[2] - t.p_offset[2]) <= max_displacement[2]
\* a non-zero shift was recorded after a growth moved the offset, and the
\* validation has failed another task
C3_Witness ==
    /\ max_displacement # <<>>
    /\ offset # <<0, 0>>
    /\ \E e \in correlated \cap inserted : shifts[e[1]][e[2]][e[3]] # <<0, 0>>
    /\ \E id \in Tasks : task[id[1]][id[2]].line = 322

\* the placement region of an inserted entry, at the current offset, lies
\* inside the accumulator
Contained(e) ==
    LET lo == VAdd(offset, shifts[e[1]][e[2]][e[3]])
    IN  /\ 0 <= lo[1] /\ lo[1] + Len(sequences[1][1][1]) <= Len(pixel_counts[1])
        /\ 0 <= lo[2]
        /\ lo[2] + Len(sequences[1][1][1][1]) <= Len(pixel_counts[1][1])
\* C4: monotonic growth and containment.  Within a partition run the extent
\* of the accumulator never decreases along either axis, and in every state
\* the region [offset + s, offset + s + plane shape) of every entry already
\* inserted, s its recorded shift and offset the current offset, lies inside
\* the accumulator.
C4_GrowthAndContainment ==
    /\ [](\A e \in inserted : Contained(e))
    /\ [][(est_pc # "tiles" /\ pixel_counts # <<>>) =>
            /\ Len(pixel_counts'[1]) >= Len(pixel_counts[1])
            /\ Len(pixel_counts'[1][1]) >= Len(pixel_counts[1][1])]_vars
\* three planes are in, one with a non-zero shift, and the accumulator has
\* grown before and after its first row
C4_Witness ==
    /\ Cardinality(inserted) >= 3
    /\ offset[1] > 0
    /\ Len(pixel_counts[1]) > offset[1] + Len(sequences[1][1][1])
    /\ \E e \in inserted : shifts[e[1]][e[2]][e[3]] # <<0, 0>>

\* C5: area bound.  The area rows x cols of the accumulator never exceeds 4
\* times the area of the raw frame; a growth that would exceed it fails the
\* task and is not stored.
C5_AreaBound ==
    pixel_counts # <<>> =>
        Len(pixel_counts[1]) * Len(pixel_counts[1][1]) <= 4 * (FrameRows * FrameCols)
\* a task has failed on the assertion of _resize_arrays
C5_Witness ==
    /\ \E id \in Tasks : task[id[1]][id[2]].line = 276
    /\ Len(pixel_counts[1]) * Len(pixel_counts[1][1]) > FrameRows * FrameCols

\* the entries of plane p in a shift record
PlaneEntries(rec, p) == {e \in RecEntries(rec) : e[3] = p}
\* C6: plane re-anchoring.  In every shift record _align_planes has produced,
\* the mean shift of every plane over all (cycle, frame) entries differs from
\* the mean shift of the first plane by less than 1 in each axis (the sums
\* over a plane's entries differ by less than the number of entries).
C6_PlanesReanchored ==
    \A k \in 1..Len(shifts_record) :
        LET rec == shifts_record[k]
        IN  \A p \in 1..Len(rec[1][1]) : \A axis \in 1..2 :
              Abs(SumAxis(rec, PlaneEntries(rec, p), axis)
                    - SumAxis(rec, PlaneEntries(rec, 1), axis))
                < Len(rec) * Len(rec[1])

\* the mean squared distance between the first and the second candidates of
\* the last agreement check is below 4
Below4 ==
    TotalDistance(first_shifts[1], second_shifts[1], Entries)
        < 4 * Cardinality(Entries)
\* the partition run in progress works on tile k of the row-major order
RunsTile(k) ==
    LET ny == (k - 1) \div Partitions[2]
        nx == (k - 1) % Partitions[2]
        dy == FrameRows \div Partitions[1]
        dx == FrameCols \div Partitions[2]
    IN  \A e \in Entries :
          /\ Len(sequences[e[1]][e[2]][e[3]]) = dy
          /\ \A y \in 1..dy :
               /\ Len(sequences[e[1]][e[2]][e[3]][y]) = dx
               /\ \A x \in 1..dx :
                    sequences[e[1]][e[2]][e[3]][y][x]
                      = dataset[e[1]][e[2]][e[3]][ny * dy + y][nx * dx + x]
\* C7: partition early stop.  Tiles are run one at a time in row-major order;
\* on a grid of two tiles or more, once the check after tile k finds the mean
\* squared distance between first and second candidates below 4 no further
\* tile is run and the first candidates of that check are returned; when the
\* mean is 4 or more the next tile of the grid is run.
C7_EarlyStop ==
    /\ [](/\ est_pc = "run" =>
               /\ tile = Len(shifts_record) + 1
               /\ tile <= NumTiles
               /\ RunsTile(tile)
          /\ est_pc = "break" => (Len(shifts_record) >= 2 /\ Below4)
          /\ (est_pc = "returned" /\ Len(shifts_record) >= 2) =>
               /\ result = first_shifts
               /\ Below4 \/ Len(shifts_record) = NumTiles)
    /\ [][/\ (est_pc = "check" /\ est_pc' # "check") =>
               IF Below4'
               THEN est_pc' = "break" /\ tile' = tile
               ELSE est_pc' = "tiles" /\ tile' = tile + 1
          /\ est_pc = "break" =>
               /\ est_pc' = "returned"
               /\ result' = first_shifts
               /\ shifts_record' = shifts_record
          /\ (est_pc' = "run" /\ est_pc # "run" /\ Len(shifts_record) >= 2) =>
               ~Below4
          /\ (est_pc = "tiles" /\ Len(shifts_record) >= 2 /\ tile <= NumTiles) =>
               est_pc' = "run" /\ tile' = tile]_vars
\* the check after the second tile of three stopped the loop, the candidates
\* differing in some entry, and the first candidates were returned
C7_Witness ==
    /\ est_pc = "returned"
    /\ NumTiles = 3
    /\ Len(shifts_record) = 2
    /\ first_shifts # second_shifts

C9_MethodValidated ==
    method # "correlation" =>
        /\ est_pc # "returned"
        /\ inserted = {}
        /\ \A e \in (IF correlations = <<>> THEN {} ELSE Entries) :
              correlations[e[1]][e[2]][e[3]] = <<>>

\* C10: default worker count.  With n_processes unset the frame tasks of a
\* cycle are dispatched as with n_processes = N, N = max(1, cpu_count / 2):
\* to the pool when N >= 2.
C10_DefaultPooled ==
    (n_processes = <<>> /\ map_generator # "none") =>
        map_generator =
            (IF Max(1, cpu_count \div 2) > 1 THEN "imap_unordered" ELSE "imap")

\* a frame task has failed
SomeTaskFailed == \E id \in Tasks : task[id[1]][id[2]].pc = "failed"
\* C11: task failure is fatal.  Once a frame task of cycle i has failed, no
\* task of a later cycle is dispatched, the failed task is not run again,
\* _align_planes does not run for the tile, no later tile is run, and neither
\* _frame_alignment_base nor _estimate returns a shift record.
C11_FailureFatal ==
    /\ [](\A id \in Tasks :
            task[id[1]][id[2]].pc = "failed" =>
              /\ est_pc \in {"run", "failed"}
              /\ cycle_idx = id[1]
              /\ \A later \in Tasks :
                    later[1] > id[1] => task[later[1]][later[2]].pc = "queued"
              /\ Len(shifts_record) = tile - 1
              /\ result = <<>>)
    /\ [][/\ \A id \in Tasks :
               task[id[1]][id[2]].pc = "failed" =>
                 /\ task' # <<>>
                 /\ task'[id[1]][id[2]] = task[id[1]][id[2]]
          /\ SomeTaskFailed =>
               /\ shifts_record' = shifts_record
               /\ tile' = tile
               /\ result' = result
               /\ cycle_idx' = cycle_idx
          /\ est_pc = "failed" => est_pc' = "failed"]_vars
\* the first cycle of two is over and a task of the second has failed; the
\* failure has reached _estimate
C11_Witness ==
    /\ est_pc = "failed"
    /\ \E id \in Tasks : id[1] = 2 /\ task[2][id[2]].pc = "failed"
    /\ \E id \in Tasks : task[id[1]][id[2]].pc = "done"

\* C12: max_displacement is a per-axis cap.  With max_displacement = m
\* configured, components >= 0, every displacement estimate returns has an
\* absolute value of at most m in each axis.  (The primitive is given no
\* window when a component of m is 0, and a result outside the window it is
\* given fails the task, so every returned record comes from results inside
\* the window.)
C12_DisplacementCapped ==
    (max_displacement # <<>> /\ est_pc = "returned") =>
        \A e \in Entries : \A axis \in 1..2 :
            Abs(result[1][e[1]][e[2]][e[3]][axis]) <= max_displacement[axis]

\* the tasks inside a `with lock:` block
InsideLock == {id \in Tasks : task[id[1]][id[2]].pc \in {"chk", "ref", "rec", "ins"}}
\* C13: lock discipline.  At most one worker is inside a lock-guarded section
\* and it is the holder of the lock; during a partition run the shared state
\* (counts, offset, shift record, correlation record) is changed only by a
\* step of the lock's holder, and a worker that goes on to the primitive has
\* taken its copies (p_offset, the shift record's extremes) from the shared
\* state in a step in which it held the lock; and a step that changes the
\* accumulator's shape or offset also inserts the holder's plane and releases
\* the lock (growth and insertion are one critical section).
C13_LockDiscipline ==
    /\ [](/\ Cardinality(InsideLock) <= 1
          /\ lock = <<>> => InsideLock = {}
          /\ lock # <<>> => InsideLock = {lock})
    /\ [][est_pc = "run" =>
            /\ ns_vars' # ns_vars =>
                 /\ lock # <<>>
                 /\ lock' = <<>>
                 /\ task'[lock[1]][lock[2]] # task[lock[1]][lock[2]]
            /\ \A id \in Tasks :
                 (task'[id[1]][id[2]].pc = "corr" /\ task[id[1]][id[2]].pc # "corr") =>
                   /\ lock = id
                   /\ task'[id[1]][id[2]].p_offset = offset
                   /\ task'[id[1]][id[2]].snapshot # <<>> =>
                        task'[id[1]][id[2]].snapshot
                          = <<min_shift(shifts), max_shift(shifts)>>
            /\ (offset' # offset \/ AccShape(pixel_counts') # AccShape(pixel_counts)) =>
                 /\ lock # <<>>
                 /\ task[lock[1]][lock[2]].pc = "ins"
                 /\ inserted' = inserted \cup {<<lock[1], lock[2], task[lock[1]][lock[2]].p>>}
                 /\ inserted' # inserted
                 /\ lock' = <<>>]_vars
\* one worker is inside the section that grows and inserts while another
\* waits for the lock, the accumulator having grown before
C13_Witness ==
    /\ lock # <<>>
    /\ task[lock[1]][lock[2]].pc = "ins"
    /\ \E id \in Tasks :
          /\ id # lock
          /\ task[id[1]][id[2]].pc \in {"chk_wait", "ref_wait", "rec_wait", "ins_wait"}
    /\ offset # <<0, 0>>

\* the record rec with trunc(mean_p - mean_1) subtracted from every shift of
\* plane p, the means taken over the (cycle, frame) entries of each plane
PerPlaneAligned(rec) ==
    LET n == Len(rec) * Len(rec[1])
        alt(p, axis) == Trunc(SumAxis(rec, PlaneEntries(rec, p), axis)
                                - SumAxis(rec, PlaneEntries(rec, 1), axis), n)
    IN  [c \in 1..Len(rec) |-> [f \in 1..Len(rec[1]) |-> [p \in 1..Len(rec[1][1]) |->
            <<rec[c][f][p][1] - alt(p, 1), rec[c][f][p][2] - alt(p, 2)>>]]]
\* C14: the operator of _align_planes.  The record a partition run returns is
\* the run's shift record with trunc(mean_p - mean_0) subtracted from every
\* shift of plane p, the means computed for each plane separately; the
\* shifts of the first plane are returned as they were recorded.
C14_PerPlaneAlteration ==
    (shifts_record # <<>> /\ est_pc \notin {"run", "failed"}) =>
        /\ shifts_record[Len(shifts_record)] = PerPlaneAligned(shifts)
        /\ \A c \in 1..NumCycles : \A f \in 1..NumFrames :
              shifts_record[Len(shifts_record)][c][f][1] = shifts[c][f][1]

\* C15: consensus result.  When two tiles or more were processed, what
\* _estimate returns is, entry by entry, the shift recorded for that entry by
\* a tile of highest correlation score among the tiles processed, and the
\* second candidate is the shift of another tile, of highest score among the
\* rest; whether the loop stopped early or the grid was exhausted.
C15_Consensus ==
    (est_pc = "returned" /\ Len(shifts_record) >= 2) =>
        \A e \in Entries :
            \E t1 \in 1..Len(shifts_record) : \E t2 \in 1..Len(shifts_record) :
                /\ t1 # t2
                /\ result[1][e[1]][e[2]][e[3]] = shifts_record[t1][e[1]][e[2]][e[3]]
                /\ second_shifts[1][e[1]][e[2]][e[3]]
                     = shifts_record[t2][e[1]][e[2]][e[3]]
                /\ \A t \in 1..Len(shifts_record) :
                     /\ corr_record[t][e[1]][e[2]][e[3]]
                          <= corr_record[t1][e[1]][e[2]][e[3]]
                     /\ t # t1 => corr_record[t][e[1]][e[2]][e[3]]
                                    <= corr_record[t2][e[1]][e[2]][e[3]]
\* the grid of three tiles was exhausted without agreement, and for some
\* entry the tiles differ both in score and in shift
C15_Witness ==
    /\ est_pc = "returned"
    /\ Len(shifts_record) = 3
    /\ ~Below4
    /\ \E e \in Entries :
          /\ corr_record[1][e[1]][e[2]][e[3]] < corr_record[2][e[1]][e[2]][e[3]]
          /\ shifts_record[1][e[1]][e[2]][e[3]] # shifts_record[2][e[1]][e[2]][e[3]]
          /\ shifts_record[3][e[1]][e[2]][e[3]] # shifts_record[2][e[1]][e[2]][e[3]]

\* the frame tasks a worker has taken and that have neither returned nor
\* raised
Running ==
    {id \in Tasks : task[id[1]][id[2]].pc \notin {"queued", "done", "failed"}}
\* C16: termination.  Under fair scheduling every run of estimate eventually
\* returns or fails, and by then every frame task a worker has taken has
\* returned or raised (between partition runs none is left running); a state
\* in which estimate has neither returned nor failed always has a step to
\* take (no deadlock); the lock is held only by a worker inside a guarded
\* section, never by one that waits for it, has returned or has raised.
C16_Termination ==
    /\ [](/\ lock # <<>> =>
               task[lock[1]][lock[2]].pc \in {"chk", "ref", "rec", "ins"}
          /\ est_pc \notin {"run", "failed"} => Running = {}
          /\ est_pc \notin {"returned", "failed"} => ENABLED Next)
    /\ <>(est_pc \in {"returned", "failed"} /\ Running = {})
\* a run over the pool has failed on the assertion of _resize_arrays, raised
\* inside the guarded section, and the lock is free
C16_Witness ==
    /\ est_pc = "failed"
    /\ map_generator = "imap_unordered"
    /\ \E id \in Tasks : task[id[1]][id[2]].line = 276
    /\ lock = <<>>

\* the count of plane p at the 0-based position (y, x) of the accumulator,
\* 0 outside of it
CountAt(counts, p, y, x) ==
    IF y \in 0..(Len(counts[p]) - 1) /\ x \in 0..(Len(counts[p][1]) - 1)
    THEN counts[p][y + 1][x + 1] ELSE 0
\* the plane of entry e has a finite sample at the 0-based position (y, x)
FiniteAt(e, y, x) ==
    /\ y \in 0..(Len(sequences[e[1]][e[2]][e[3]]) - 1)
    /\ x \in 0..(Len(sequences[e[1]][e[2]][e[3]][1]) - 1)
    /\ sequences[e[1]][e[2]][e[3]][y + 1][x + 1]
\* C17: placement across a concurrent growth.  A worker that read the
\* reference with offset O1 records shift - O1, whatever the offset has
\* become since; its plane is then added at position (shift - O1) + O2 of the
\* accumulator, O2 the offset at the insertion, every count already there
\* staying at the same distance from the offset; and a growth changes no
\* stored shift.
C17_PlacementAcrossGrowth ==
    [][\A id \in Tasks :
         LET c == id[1]
             f == id[2]
             t == task[c][f]
             e == <<c, f, t.p>>
             o2 == offset'
             pos == <<shifts[c][f][t.p][1] + o2[1], shifts[c][f][t.p][2] + o2[2]>>
         IN  /\ (t.pc = "rec" /\ task'[c][f].pc # "rec") =>
                  /\ shifts'[c][f][t.p] =
                       <<t.shift[1] - t.p_offset[1], t.shift[2] - t.p_offset[2]>>
                  /\ \A other \in Entries \ {e} :
                       shifts'[other[1]][other[2]][other[3]]
                         = shifts[other[1]][other[2]][other[3]]
             /\ (t.pc = "ins" /\ task'[c][f].pc \notin {"ins", "failed"}) =>
                  /\ shifts' = shifts
                  /\ o2[1] >= offset[1] /\ o2[2] >= offset[2]
                  /\ \A p \in 1..NumPlanes :
                       \A y \in 0..(Len(pixel_counts'[p]) - 1) :
                         \A x \in 0..(Len(pixel_counts'[p][1]) - 1) :
                           pixel_counts'[p][y + 1][x + 1] =
                             CountAt(pixel_counts, p, y - (o2[1] - offset[1]),
                                     x - (o2[2] - offset[2]))
                             + (IF p = t.p /\ FiniteAt(e, y - pos[1], x - pos[2])
                                THEN 1 ELSE 0)]_vars
\* a worker holds a result of the primitive for an offset that another
\* worker's growth has since moved
C17_Witness ==
    \E id \in Tasks :
        /\ task[id[1]][id[2]].pc = "rec"
        /\ task[id[1]][id[2]].p_offset # offset
        /\ task[id[1]][id[2]].shift # task[id[1]][id[2]].p_offset

\* every plane of every frame of the partition run has a finite sample
AllPlanesFinite ==
    \A e \in Entries : \E y \in 0..(TileRows - 1) : \E x \in 0..(TileCols - 1) :
        FiniteAt(e, y, x)
\* the entries of plane p that took the bootstrap path
BootstrapsOf(p) == {e \in Bootstrapped : e[3] = p}
\* C18: one bootstrap per plane.  In a partition run whose planes all have a
\* finite sample, at most one (cycle, frame) entry of each plane takes the
\* bootstrap path, exactly one once an entry of the plane is in, and the
\* plane's count is then non-zero somewhere; during a run a plane's count
\* that is non-zero somewhere never becomes all-zero again.
C18_OneBootstrapPerPlane ==
    /\ []((task # <<>> /\ AllPlanesFinite) =>
            \A p \in 1..NumPlanes :
              /\ Cardinality(BootstrapsOf(p)) <= 1
              /\ (\E e \in inserted : e[3] = p) =>
                   (Cardinality(BootstrapsOf(p)) = 1 /\ ~PlaneEmpty(p))
              /\ (est_pc # "failed" /\ cycle_idx > NumCycles) =>
                   Cardinality(BootstrapsOf(p)) = 1)
    /\ [][est_pc = "run" =>
            \A p \in 1..NumPlanes : ~PlaneEmpty(p) => ~PlaneEmpty(p)']_vars
\* two workers of the pool are on the same plane in the same cycle: one has
\* seeded it, the other found it seeded and is aligning its own
C18_Witness ==
    /\ map_generator = "imap_unordered"
    /\ AllPlanesFinite
    /\ offset # <<0, 0>>
    /\ \E e \in Bootstrapped : \E id \in Tasks :
          /\ id[1] = e[1] /\ id[2] # e[2]
          /\ task[id[1]][id[2]].p = e[3]
          /\ task[id[1]][id[2]].pc \in {"ref_wait", "ref", "corr", "rec_wait", "rec", "ins_wait", "ins"}

\* the inserted entries of plane p whose placement region, at the current
\* offset, covers the 0-based position (y, x) with a finite sample
Covering(p, y, x) ==
    {e \in inserted :
        /\ e[3] = p
        /\ FiniteAt(e, y - (offset[1] + shifts[e[1]][e[2]][e[3]][1]),
                       x - (offset[2] + shifts[e[1]][e[2]][e[3]][2]))}
\* C19: no lost updates.  For every plane and every position of the
\* accumulator the count is the number of inserted entries of the plane whose
\* placement region covers the position with a finite sample, in every state
\* of a partition run; and when the run's last cycle is over without a
\* failure every (cycle, frame, plane) entry has been inserted.
C19_NoLostUpdates ==
    task # <<>> =>
        /\ \A p \in 1..NumPlanes :
             \A y \in 0..(Len(pixel_counts[p]) - 1) :
               \A x \in 0..(Len(pixel_counts[p][1]) - 1) :
                 pixel_counts[p][y + 1][x + 1] = Cardinality(Covering(p, y, x))
        /\ (est_pc # "failed" /\ cycle_idx > NumCycles) => inserted = Entries
\* a run over the pool is complete; some position was counted by two planes
\* and the accumulator has grown
C19_Witness ==
    /\ est_pc = "run"
    /\ cycle_idx > NumCycles
    /\ map_generator = "imap_unordered"
    /\ NumFrames = 2
    /\ offset # <<0, 0>>
    /\ \E p \in 1..NumPlanes : \E y \in 1..Len(pixel_counts[p]) :
          \E x \in 1..Len(pixel_counts[p][1]) : pixel_counts[p][y][x] >= 2

\* C20: state unchanged on a fatal check.  The step in which a task fails,
\* on the validation of the primitive's result (line 322) or on the area
\* bound of _resize_arrays (line 276), changes neither the shift and
\* correlation records nor the accumulator's counts and offset and inserts
\* nothing; the entry that failed the validation is left unrecorded, and the
\* one that failed the area bound is left out of the accumulator.
C20_UnchangedOnFailure ==
    /\ [][\A id \in Tasks :
            (task[id[1]][id[2]].pc # "failed" /\ task'[id[1]][id[2]].pc = "failed") =>
              /\ task'[id[1]][id[2]].line \in {276, 322, 326, 329}
              /\ shifts' = shifts
              /\ correlations' = correlations
              /\ pixel_counts' = pixel_counts
              /\ offset' = offset
              /\ inserted' = inserted]_vars
    /\ [](\A id \in Tasks :
            LET t == task[id[1]][id[2]]
                e == <<id[1], id[2], t.p>>
            IN  /\ (t.pc = "failed" /\ t.line = 322) =>
                     /\ shifts[e[1]][e[2]][e[3]] = <<0, 0>>
                     /\ correlations[e[1]][e[2]][e[3]] = <<>>
                     /\ e \notin inserted
                /\ (t.pc = "failed" /\ t.line = 276) => e \notin inserted)
\* a task has failed on the area bound after its shift was recorded, in an
\* accumulator that an earlier insertion had enlarged; its plane is not in
C20_Witness ==
    \E id \in Tasks :
        LET e == <<id[1], id[2], task[id[1]][id[2]].p>>
        IN  /\ task[id[1]][id[2]].line = 276
            /\ e \in correlated \ inserted
            /\ correlations[e[1]][e[2]][e[3]] # <<>>
            /\ AccShape(pixel_counts) # PlaneShape

====
